---------------------------- MODULE Spec2Model ----------------------------
(***************************************************************************)
(* A model of lib/src/parseable.cc of the hocon library: the parseable     *)
(* sources (file, string, resources, not-found), their option fix-up and   *)
(* relative resolution, and the parse entry points with the per-thread     *)
(* include stack and the missing-file policy of parse_value.               *)
(*                                                                         *)
(* Text (std::string) is a sequence of atoms.  Paths, file names and the   *)
(* suffixes compared against them are spelled one character per atom, so   *)
(* that ends_with, rfind and substr work on characters; fixed message      *)
(* fragments are single atoms.                                             *)
(***************************************************************************)
EXTENDS Integers, Sequences, FiniteSets, TLC

VARIABLES
    obj,                      \* SpecSources: the parseable most recently built
    made,                     \* SpecSources: the operation that built obj and its arguments
    thread_specific_ptr_data, \* per thread: the map behind thread_specific_ptr (slot of parse_stack)
    frames,                   \* per thread: the parse calls in progress, outermost first
    ret,                      \* per thread: the outcome of the call that just ended, not yet consumed
    events                    \* per thread: what happened during the current outermost parse

vars == <<obj, made, thread_specific_ptr_data, frames, ret, events>>

sourceVars == <<obj, made>>

engineVars == <<thread_specific_ptr_data, frames, ret, events>>

-----------------------------------------------------------------------------
(* Bounds of the model *)

\* the longest path, in path pieces, handed to new_file or relative_to
MaxSegs == 3

\* the longest path, in characters, a chain of relative_to calls may build
MaxPathLen == 10

-----------------------------------------------------------------------------
(* Text *)

Min(a, b) == IF a <= b THEN a ELSE b

\* std::string::npos
npos == -1

\* std::string::substr(pos, count): count is clamped to the end of the string
Substr(s, pos, count) == SubSeq(s, pos + 1, Min(pos + count, Len(s)))

\* std::string::rfind(ch, s.length()): 0-based index of the last ch, or npos
RFind(s, ch) ==
    LET hits == {i \in 1..Len(s) : s[i] = ch}
    IN  IF hits = {} THEN npos
        ELSE (CHOOSE i \in hits : \A j \in hits : j <= i) - 1

ends_with(fullString, ending) ==
    IF Len(fullString) >= Len(ending)
    THEN SubSeq(fullString, Len(fullString) - Len(ending) + 1, Len(fullString)) = ending
    ELSE FALSE

Slash == "/"

DotJson == <<".", "j", "s", "o", "n">>

DotConf == <<".", "c", "o", "n", "f">>

Digit == <<"0", "1", "2", "3", "4", "5", "6", "7", "8", "9">>

RECURSIVE to_string(_)
\* std::to_string(int) for n >= 0, one atom per digit
to_string(n) ==
    IF n < 10 THEN <<Digit[n + 1]>>
    ELSE to_string(n \div 10) \o <<Digit[(n % 10) + 1]>>

-----------------------------------------------------------------------------
(* config_parse_options, as far as parseable.cc reads and writes them *)

Syntaxes == {"JSON", "CONF", "UNSPECIFIED"}

NoDescription == [has |-> FALSE, text |-> << >>]

Description(text) == [has |-> TRUE, text |-> text]

Options(syntax, allow_missing, origin_description) ==
    [syntax |-> syntax, allow_missing |-> allow_missing,
     origin_description |-> origin_description]

set_syntax(options, syntax) == [options EXCEPT !.syntax = syntax]

\* simple_include_context::parse_options(): the options an included source is
\* built with; the include clears syntax and origin description and allows missing
IncludeParseOptions == Options("UNSPECIFIED", TRUE, NoDescription)

-----------------------------------------------------------------------------
(* The sources *)

Kinds == {"file", "string", "resources", "not_found"}

syntax_from_extension(name) ==
    IF ends_with(name, DotJson) THEN "JSON"
    ELSE IF ends_with(name, DotConf) THEN "CONF"
    ELSE "UNSPECIFIED"

\* parseable::guess_syntax, overridden by parseable_file::guess_syntax only
guess_syntax(kind, input) ==
    IF kind = "file" THEN syntax_from_extension(input) ELSE "UNSPECIFIED"

\* parseable::content_type: no source overrides it
content_type(kind) == "UNSPECIFIED"

FixupKeepsUnspecified(kind, input, base_options) ==
    LET syntax == IF base_options.syntax = "UNSPECIFIED"
                  THEN guess_syntax(kind, input) ELSE base_options.syntax
    IN  set_syntax(base_options, syntax)

fixup_options(kind, input, base_options) ==
    LET syntax1 == IF base_options.syntax = "UNSPECIFIED"
                   THEN guess_syntax(kind, input) ELSE base_options.syntax
        syntax2 == IF syntax1 = "UNSPECIFIED" THEN "CONF" ELSE syntax1
    IN  set_syntax(base_options, syntax2)

\* create_origin of the four source classes
create_origin(kind, input) ==
    IF kind = "file" THEN <<"file: ">> \o input
    ELSE IF kind = "string" THEN <<"string">>
    ELSE input

SeparateDropsSlash(path) ==
    LET i == RFind(path, Slash)
    IN  IF i # npos
        THEN [file_dir |-> Substr(path, 0, i),
              file_name |-> Substr(path, i + 1, Len(path) - i)]
        ELSE [file_dir |-> << >>, file_name |-> path]

separate_filepath(path) ==
    LET i == RFind(path, Slash)
    IN  IF i # npos
        THEN [file_dir |-> Substr(path, 0, i + 1),
              file_name |-> Substr(path, i + 1, Len(path) - i)]
        ELSE [file_dir |-> << >>, file_name |-> path]

\* post_construct: the fixed-up initial options and the initial origin
post_construct(kind, input, message, base_options) ==
    [kind |-> kind, input |-> input, message |-> message,
     initial_options |-> fixup_options(kind, input, base_options),
     initial_origin |-> IF base_options.origin_description.has
                        THEN base_options.origin_description.text
                        ELSE create_origin(kind, input),
     cur_dir |-> << >>]

\* parseable_file::parseable_file: post_construct, then the directory of the path
\* becomes the current directory of the include context
new_file(input_file_path, options) ==
    [post_construct("file", input_file_path, << >>, options)
        EXCEPT !.cur_dir = separate_filepath(input_file_path).file_dir]

new_string(s, options) == post_construct("string", s, << >>, options)

new_not_found(what_not_found, message, options) ==
    post_construct("not_found", what_not_found, message, options)

new_resources(resource, options) == post_construct("resources", resource, << >>, options)

relative_to(p, file_name) ==
    LET resource == IF file_name # << >> /\ file_name[1] = Slash
                    THEN file_name
                    ELSE p.cur_dir \o file_name
    IN  new_file(resource, IncludeParseOptions)

\* the options a parse_value(base_options) call parses with: fixup_options, then
\* raw_parse_value's content type when the source reports one
final_options(p, base_options) ==
    LET options == fixup_options(p.kind, p.input, base_options)
    IN  IF content_type(p.kind) # "UNSPECIFIED"
        THEN set_syntax(options, content_type(p.kind))
        ELSE options

-----------------------------------------------------------------------------
(* Inputs of the source operations *)

PathPieces == {<<Slash>>, <<"a">>, DotJson, DotConf}

RECURSIVE PathsOf(_)
PathsOf(n) ==
    IF n = 0 THEN {<< >>}
    ELSE LET shorter == PathsOf(n - 1)
         IN  shorter \cup {p \o q : p \in shorter, q \in PathPieces}

Paths == PathsOf(MaxSegs)

Names == PathsOf(2)

CustomDescription == Description(<<"custom">>)

OptionInputs ==
    {Options(s, am, d) : s \in Syntaxes, am \in BOOLEAN,
                         d \in {NoDescription, CustomDescription}}

NoObject == [kind |-> "none"]

-----------------------------------------------------------------------------
(* The files and in-memory documents the parse engine reads *)

File(letter, extension) == <<Slash, letter>> \o extension

LoopConf == File("l", DotConf)       \* includes itself

RequiredLoopConf == File("r", DotConf) \* includes itself as required(...)

PingConf == File("p", DotConf)       \* requires q.conf, which includes p.conf

PongConf == File("q", DotConf)

NopeConf == File("n", DotConf)       \* no such file

BadConf == File("b", DotConf)        \* malformed in every syntax

StrictJson == File("s", DotJson)     \* well-formed HOCON that is not JSON

MainConf == File("m", DotConf)       \* includes n.conf, then requires it

OptConf == File("o", DotConf)        \* includes n.conf, then k.conf

LeafConf == File("k", DotConf)

ArrayJson == File("a", DotJson)      \* the root is an array

BadIncConf == File("i", DotConf)     \* includes b.conf

TopConf == File("t", DotConf)        \* includes m.conf

Inc(name, required) == [name |-> name, required |-> required]

Rel(letter, extension) == <<letter>> \o extension

Doc(valid_in, root, keys, includes) ==
    [valid_in |-> valid_in, root |-> root, keys |-> keys, includes |-> includes]

Both == {"JSON", "CONF"}

FileSystem ==
    (LoopConf :> Doc({"CONF"}, "OBJECT", {"l"}, <<Inc(Rel("l", DotConf), FALSE)>>)) @@
    (RequiredLoopConf :> Doc({"CONF"}, "OBJECT", {"r"}, <<Inc(Rel("r", DotConf), TRUE)>>)) @@
    (PingConf :> Doc({"CONF"}, "OBJECT", {"p"}, <<Inc(Rel("q", DotConf), TRUE)>>)) @@
    (PongConf :> Doc({"CONF"}, "OBJECT", {"q"}, <<Inc(PingConf, FALSE)>>)) @@
    (BadConf :> Doc({}, "OBJECT", {}, << >>)) @@
    (StrictJson :> Doc({"CONF"}, "OBJECT", {"s"}, << >>)) @@
    (MainConf :> Doc({"CONF"}, "OBJECT", {"m"},
                     <<Inc(Rel("n", DotConf), FALSE), Inc(Rel("n", DotConf), TRUE)>>)) @@
    (OptConf :> Doc({"CONF"}, "OBJECT", {"o"},
                    <<Inc(Rel("n", DotConf), FALSE), Inc(Rel("k", DotConf), FALSE)>>)) @@
    (LeafConf :> Doc(Both, "OBJECT", {"k"}, << >>)) @@
    (ArrayJson :> Doc(Both, "LIST", {}, << >>)) @@
    (BadIncConf :> Doc({"CONF"}, "OBJECT", {"i"}, <<Inc(Rel("b", DotConf), FALSE)>>)) @@
    (TopConf :> Doc({"CONF"}, "OBJECT", {"t"}, <<Inc(Rel("m", DotConf), FALSE)>>))

\* the documents held by in-memory strings
ObjectText == <<"x = 1">>

ArrayText == <<"[1]">>

BrokenText == <<"{">>

StringDocs ==
    (ObjectText :> Doc({"CONF"}, "OBJECT", {"x"}, << >>)) @@
    (ArrayText :> Doc(Both, "LIST", {}, << >>)) @@
    (BrokenText :> Doc({}, "OBJECT", {}, << >>))

-----------------------------------------------------------------------------
(* Values and exceptions *)

MAX_INCLUDE_DEPTH == 50

NotFoundSuffix == <<" (not found)">>

Value(vtype, origin, keys) ==
    [kind |-> "value", vtype |-> vtype, origin |-> origin, keys |-> keys]

\* an exception object: its class, the origin it was built with (if any) and
\* the message it was built with
Exception(type, origin, message) ==
    [kind |-> "exc", type |-> type, origin |-> origin, message |-> message]

\* what(): config_exception prefixes the description of its origin
What(e) ==
    IF e.origin.has THEN e.origin.text \o <<": ">> \o e.message ELSE e.message

\* whether catch (const runtime_error&) catches it: std::runtime_error itself,
\* and config_exception with everything derived from it
IsRuntimeError(e) ==
    e.type \in {"runtime_error", "config_exception", "parse_exception",
                "io_exception", "wrong_type_exception"}

\* typeid(*this).name() of the source classes
TypeName(kind) == "hocon::parseable_" \o kind

-----------------------------------------------------------------------------
(* thread_specific_ptr<vector<shared_ptr<const parseable>>> parse_stack *)

ThreadIds == {"t1", "t2"}

NullPtr == [held |-> FALSE, value |-> << >>]

Vector(v) == [held |-> TRUE, value |-> v]

\* thread_specific_ptr::get on thread t: what the thread's own map holds
Get(data, t) == data[t]

StoreShared(data, t, ptr) == [u \in ThreadIds |-> ptr]

\* a write through thread_specific_ptr / the vector it holds, on thread t:
\* thread_specific_ptr_data is thread_local, only t's map changes
Store(data, t, ptr) == [data EXCEPT ![t] = ptr]

-----------------------------------------------------------------------------
(* The parse calls *)

NoRet == [out |-> [kind |-> "none"]]

Top(t) == frames[t][Len(frames[t])]

Running(t) == frames[t] # << >>

\* reader() of the four source classes: the document the stream holds, or the
\* exception thrown
reader(p) ==
    IF p.kind = "file"
    THEN IF p.input \in DOMAIN FileSystem
         THEN [kind |-> "stream", doc |-> FileSystem[p.input]]
         ELSE Exception("runtime_error", NoDescription, <<"not found">>)
    ELSE IF p.kind = "string"
    THEN [kind |-> "stream",
          doc |-> IF p.input \in DOMAIN StringDocs THEN StringDocs[p.input]
                  ELSE Doc({}, "OBJECT", {}, << >>)]
    ELSE IF p.kind = "resources"
    THEN Exception("config_exception", NoDescription,
                   <<"reader() should not be called on resources">>)
    ELSE Exception("config_exception", NoDescription, p.message)

CatchDropsSuffix(origin, final, raw) ==
    IF raw.kind = "exc" /\ IsRuntimeError(raw)
    THEN IF final.allow_missing
         THEN Value("OBJECT", origin, {})
         ELSE Exception("io_exception", Description(origin), What(raw))
    ELSE raw

\* parse_value(origin, final_options): the try/catch around raw_parse_value
parse_value(origin, final, raw) ==
    IF raw.kind = "exc" /\ IsRuntimeError(raw)
    THEN IF final.allow_missing
         THEN Value("OBJECT", origin \o NotFoundSuffix, {})
         ELSE Exception("io_exception", Description(origin), What(raw))
    ELSE raw

ForceKeepsValue(value) == value

force_parsed_to_object(value) ==
    IF value.kind = "value" /\ value.vtype # "OBJECT"
    THEN Exception("wrong_type_exception", Description(value.origin),
                   <<"object at file root">>)
    ELSE value

ExitKeepsSlot(data, t) ==
    Store(data, t, Vector(SubSeq(Get(data, t).value, 1, Len(Get(data, t).value) - 1)))

\* the scope_exit of parse(options): pop_back, and reset the slot when empty
scope_exit(data, t) ==
    LET popped == SubSeq(Get(data, t).value, 1, Len(Get(data, t).value) - 1)
    IN  IF popped = << >> THEN Store(data, t, NullPtr)
        ELSE Store(data, t, Vector(popped))

\* the trace of the include-depth error: one line per entry of the stack
RECURSIVE stacktrace(_)
stacktrace(pstack) ==
    IF pstack = << >> THEN << >>
    ELSE stacktrace(SubSeq(pstack, 1, Len(pstack) - 1))
         \o <<"\t", TypeName(pstack[Len(pstack)].kind), "\n">>

DepthMessage(pstack) ==
    <<"include statements nested more than ">> \o to_string(MAX_INCLUDE_DEPTH)
    \o <<" times, you probably have a cycle in your includes. Trace:\n">>
    \o stacktrace(pstack)

DepthCheckOffByOne(pstack) == Len(pstack) > MAX_INCLUDE_DEPTH

\* the check at the head of parse(options)
DepthExceeded(pstack) == Len(pstack) >= MAX_INCLUDE_DEPTH

\* one call in progress of parse() or parse(options) on source p
Frame(p, entry, base_options, included, before) ==
    [p |-> p, entry |-> entry,
     options |-> final_options(p, base_options),
     origin |-> IF base_options.origin_description.has
                THEN base_options.origin_description.text
                ELSE p.initial_origin,
     included |-> included,
     before |-> [held |-> before.held, depth |-> Len(before.value)],
     pc |-> "reader", idx |-> 0, keys |-> {}]

\* parse(options) up to the push: the stack of the thread after the call is entered
Pushed(data, t, p) ==
    LET ready == IF Get(data, t).held THEN data ELSE Store(data, t, Vector(<< >>))
    IN  IF DepthExceeded(Get(ready, t).value) THEN ready
        ELSE Store(ready, t, Vector(Append(Get(ready, t).value, p)))

\* the document the stream of an opened source holds
DocOf(p) == reader(p).doc

\* p->parse(base_options) is entered on thread t; ev is what has happened in
\* the outermost parse so far
EnterParseOptions(t, p, base_options, included, ev) ==
    LET before == Get(thread_specific_ptr_data, t)
        f == Frame(p, "parse_options", base_options, included, before)
        thrown == Exception("parse_exception", Description(p.initial_origin),
                            DepthMessage(before.value))
    IN  /\ thread_specific_ptr_data' = Pushed(thread_specific_ptr_data, t, p)
        /\ IF before.held /\ DepthExceeded(before.value)
           THEN /\ ret' = [ret EXCEPT ![t] = [out |-> thrown, call |-> f,
                                              pushed |-> FALSE, raw |-> thrown]]
                /\ events' = [events EXCEPT ![t] = ev \cup {"depth_cap"}]
                /\ UNCHANGED frames
           ELSE /\ frames' = [frames EXCEPT ![t] = Append(@, f)]
                /\ ret' = [ret EXCEPT ![t] = NoRet]
                /\ events' = [events EXCEPT ![t] = ev]

\* the call in progress at the top of t ends: raw is what raw_parse_value
\* returned or threw
Complete(t, raw) ==
    LET f == Top(t)
        out == force_parsed_to_object(parse_value(f.origin, f.options, raw))
    IN  /\ frames' = [frames EXCEPT ![t] = SubSeq(@, 1, Len(@) - 1)]
        /\ ret' = [ret EXCEPT ![t] = [out |-> out, call |-> f, pushed |-> TRUE,
                                      raw |-> raw]]
        /\ thread_specific_ptr_data' =
              IF f.entry = "parse_options"
              THEN scope_exit(thread_specific_ptr_data, t)
              ELSE thread_specific_ptr_data

\* the application calls p->parse(options) on an idle thread
CallParseOptions(t, p, options) ==
    /\ ~Running(t)
    /\ EnterParseOptions(t, p, options, FALSE, {})
    /\ UNCHANGED sourceVars

\* the application calls p->parse() on an idle thread: parse_value with
\* default-constructed options, without touching the stack
CallParse(t, p, defaults) ==
    /\ ~Running(t)
    /\ events' = [events EXCEPT ![t] = {}]
    /\ frames' = [frames EXCEPT ![t] =
          Append(@, Frame(p, "parse", defaults, FALSE, Get(thread_specific_ptr_data, t)))]
    /\ ret' = [ret EXCEPT ![t] = NoRet]
    /\ UNCHANGED <<thread_specific_ptr_data, sourceVars>>

\* raw_parse_value: reader()
Reader(t) ==
    /\ Running(t)
    /\ Top(t).pc = "reader"
    /\ LET f == Top(t)
           r == reader(f.p)
       IN  IF r.kind = "exc"
           THEN /\ Complete(t, r)
                /\ events' = [events EXCEPT ![t] =
                      IF f.included /\ ~f.options.allow_missing
                      THEN @ \cup {"required_missing"} ELSE @]
           ELSE /\ frames' = [frames EXCEPT ![t][Len(frames[t])] =
                                 [f EXCEPT !.pc = "document"]]
                /\ UNCHANGED <<thread_specific_ptr_data, ret, events>>
    /\ UNCHANGED sourceVars

\* raw_parse_value: token_iterator and config_document_parser::parse
Document(t) ==
    /\ Running(t)
    /\ Top(t).pc = "document"
    /\ LET f == Top(t)
       IN  IF f.options.syntax \notin DocOf(f.p).valid_in
           THEN /\ Complete(t, Exception("parse_exception", Description(f.origin),
                                         <<"malformed input">>))
                /\ events' = [events EXCEPT ![t] = @ \cup {"malformed"}]
           ELSE /\ frames' = [frames EXCEPT ![t][Len(frames[t])] =
                                 [f EXCEPT !.pc = "includes", !.keys = DocOf(f.p).keys]]
                /\ UNCHANGED <<thread_specific_ptr_data, ret, events>>
    /\ UNCHANGED sourceVars

\* config_parser::parse reaches the next include of the document: the includer
\* resolves the name against this source and parses the result
Include(t) ==
    /\ Running(t)
    /\ Top(t).pc = "includes"
    /\ ret[t] = NoRet
    /\ Top(t).idx < Len(DocOf(Top(t).p).includes)
    /\ LET f == Top(t)
           inc == DocOf(f.p).includes[f.idx + 1]
           p == relative_to(f.p, inc.name)
       IN  EnterParseOptions(t, p, [p.initial_options EXCEPT
                                       !.allow_missing = ~inc.required],
                             TRUE, events[t])
    /\ UNCHANGED sourceVars

\* the included parse ended: its object is merged, its exception leaves
\* raw_parse_value
Resume(t) ==
    /\ Running(t)
    /\ Top(t).pc = "includes"
    /\ ret[t] # NoRet
    /\ LET f == Top(t)
           r == ret[t].out
       IN  IF r.kind = "exc"
           THEN Complete(t, r)
           ELSE /\ frames' = [frames EXCEPT ![t][Len(frames[t])] =
                                 [f EXCEPT !.idx = f.idx + 1,
                                           !.keys = f.keys \cup r.keys]]
                /\ ret' = [ret EXCEPT ![t] = NoRet]
                /\ UNCHANGED thread_specific_ptr_data
    /\ UNCHANGED <<events, sourceVars>>

\* config_parser::parse reaches the end of the document
Finish(t) ==
    /\ Running(t)
    /\ Top(t).pc = "includes"
    /\ ret[t] = NoRet
    /\ Top(t).idx = Len(DocOf(Top(t).p).includes)
    /\ Complete(t, Value(DocOf(Top(t).p).root, Top(t).origin, Top(t).keys))
    /\ UNCHANGED <<events, sourceVars>>

EngineIdle ==
    /\ thread_specific_ptr_data = [t \in ThreadIds |-> NullPtr]
    /\ frames = [t \in ThreadIds |-> << >>]
    /\ ret = [t \in ThreadIds |-> NoRet]
    /\ events = [t \in ThreadIds |-> {}]

InitSources ==
    /\ obj = NoObject
    /\ made = [op |-> "none"]
    /\ EngineIdle

NewFile(path, options) ==
    /\ obj = NoObject
    /\ obj' = new_file(path, options)
    /\ made' = [op |-> "new_file", input |-> path, options |-> options]
    /\ UNCHANGED engineVars

NewString(s, options) ==
    /\ obj = NoObject
    /\ obj' = new_string(s, options)
    /\ made' = [op |-> "new_string", input |-> s, options |-> options]
    /\ UNCHANGED engineVars

NewNotFound(what, options) ==
    /\ obj = NoObject
    /\ obj' = new_not_found(what, <<"not found">>, options)
    /\ made' = [op |-> "new_not_found", input |-> what, options |-> options]
    /\ UNCHANGED engineVars

NewResources(resource, options) ==
    /\ obj = NoObject
    /\ obj' = new_resources(resource, options)
    /\ made' = [op |-> "new_resources", input |-> resource, options |-> options]
    /\ UNCHANGED engineVars

RelativeTo(name) ==
    /\ obj # NoObject
    /\ Len(obj.cur_dir) + Len(name) <= MaxPathLen
    /\ obj' = relative_to(obj, name)
    /\ made' = [op |-> "relative_to", input |-> name,
                from |-> [kind |-> obj.kind, input |-> obj.input]]
    /\ UNCHANGED engineVars

\* the last shared_ptr to the source is dropped
Discard ==
    /\ obj # NoObject
    /\ obj' = NoObject
    /\ made' = [op |-> "none"]
    /\ UNCHANGED engineVars

NextSources ==
    \/ \E path \in Paths, options \in OptionInputs : NewFile(path, options)
    \/ \E s \in Names, options \in OptionInputs : NewString(s, options)
    \/ \E what \in Names, options \in OptionInputs : NewNotFound(what, options)
    \/ \E resource \in Names, options \in OptionInputs : NewResources(resource, options)
    \/ \E name \in Names : RelativeTo(name)
    \/ Discard

SpecSources == InitSources /\ [][NextSources]_vars

-----------------------------------------------------------------------------
(* The parse engine on one thread, over every source *)

TopFiles ==
    {LoopConf, RequiredLoopConf, PingConf, NopeConf, BadConf, StrictJson, MainConf,
     OptConf, ArrayJson, BadIncConf, TopConf}

ConstructOptions ==
    {Options("UNSPECIFIED", FALSE, NoDescription),
     Options("UNSPECIFIED", FALSE, CustomDescription)}

TopSources ==
    {new_file(path, o) : path \in TopFiles, o \in ConstructOptions}
    \cup {new_string(text, o) : text \in {ObjectText, ArrayText, BrokenText},
                                o \in ConstructOptions}
    \cup {new_not_found(<<"missing thing">>, <<"no such thing">>, o) : o \in ConstructOptions}
    \cup {new_resources(<<"res">>, o) : o \in ConstructOptions}

\* config_parse_options(): the constructor is defined outside parseable.cc; it
\* sets no origin description
DefaultOptions == {Options(s, am, NoDescription) : s \in Syntaxes, am \in BOOLEAN}

Step(t) ==
    \/ Reader(t)
    \/ Document(t)
    \/ Include(t)
    \/ Resume(t)
    \/ Finish(t)

MainThread == "t1"

Init ==
    /\ obj = NoObject
    /\ made = [op |-> "none"]
    /\ EngineIdle

Next ==
    \/ \E p \in TopSources, options \in OptionInputs : CallParseOptions(MainThread, p, options)
    \/ \E p \in TopSources, defaults \in DefaultOptions : CallParse(MainThread, p, defaults)
    \/ Step(MainThread)

Spec == Init /\ [][Next]_vars

-----------------------------------------------------------------------------
(* Parses interleaved on two threads, over the sources that include themselves *)

ThreadSources == {new_file(LoopConf, Options("UNSPECIFIED", FALSE, NoDescription))}

ThreadOptions == {Options("UNSPECIFIED", FALSE, NoDescription)}

NextThreads ==
    \E t \in ThreadIds :
        \/ \E p \in ThreadSources, options \in ThreadOptions : CallParseOptions(t, p, options)
        \/ Step(t)

SpecThreads == Init /\ [][NextThreads]_vars

-----------------------------------------------------------------------------
(* Notions the properties below share *)

\* the include stack of thread t, as a sequence (empty when the slot holds none)
StackOf(t) == Get(thread_specific_ptr_data, t).value

Last(seq) == seq[Len(seq)]

ButLast(seq) == SubSeq(seq, 1, Len(seq) - 1)

RECURSIVE SourcesOf(_, _)
\* the sources of the calls in fs that entered through one of the entries
SourcesOf(fs, entries) ==
    IF fs = << >> THEN << >>
    ELSE (IF Head(fs).entry \in entries THEN <<Head(fs).p>> ELSE << >>)
         \o SourcesOf(Tail(fs), entries)

\* thread t took the step: every action changes the frames or the pending
\* outcome of the thread that takes it
Acted(t) == frames'[t] # frames[t] \/ ret'[t] # ret[t]

\* the step enters a parse(options) call that pushes
EntersPushing(t) ==
    /\ Len(frames'[t]) = Len(frames[t]) + 1
    /\ Last(frames'[t]).entry = "parse_options"

\* the step is a parse(options) call that throws at its depth check
EntersThrowing(t) ==
    /\ ret[t] = NoRet
    /\ ret'[t] # NoRet
    /\ ~ret'[t].pushed

\* the step ends a parse(options) call that had pushed
ExitsPushed(t) ==
    /\ Len(frames'[t]) = Len(frames[t]) - 1
    /\ Top(t).entry = "parse_options"

HasSuffix(text, suffix) == \E k \in 0..Len(text) : text = SubSeq(text, 1, k) \o suffix

HasSlash(text) == \E i \in 1..Len(text) : text[i] = Slash


-----------------------------------------------------------------------------
(* C1 *)

\* C1: on every thread the include stack never holds more than
\* MAX_INCLUDE_DEPTH (50) sources; a parse(options) call that is entered with
\* fewer than 50 entries on the stack pushes exactly its own source, and one
\* entered with 50 entries throws a parse error and leaves the stack as it was.
C1_IncludeDepthCap ==
    /\ [](\A t \in ThreadIds : Len(StackOf(t)) <= MAX_INCLUDE_DEPTH)
    /\ [][\A t \in ThreadIds :
            /\ EntersPushing(t) =>
                 /\ Len(StackOf(t)) < MAX_INCLUDE_DEPTH
                 /\ StackOf(t)' = Append(StackOf(t), Last(frames'[t]).p)
            /\ EntersThrowing(t) =>
                 /\ Len(StackOf(t)) = MAX_INCLUDE_DEPTH
                 /\ ret'[t].out.kind = "exc"
                 /\ ret'[t].out.type = "parse_exception"
                 /\ thread_specific_ptr_data'[t] = thread_specific_ptr_data[t]
                 /\ frames'[t] = frames[t]
            /\ (Acted(t) /\ Len(frames'[t]) >= Len(frames[t]) /\ StackOf(t)' # StackOf(t))
                 => EntersPushing(t)
       ]_vars

\* a parse(options) call found 50 entries on the stack of its thread and threw
C1_Witness ==
    \E t \in ThreadIds :
        /\ ret[t] # NoRet
        /\ ~ret[t].pushed
        /\ Len(StackOf(t)) = MAX_INCLUDE_DEPTH

-----------------------------------------------------------------------------
(* C2 *)

\* C2: when the include nesting ran into the cap during an outermost parse,
\* that parse ends with a parse error whose message carries a trace of one line
\* per stack entry; it never returns an object.
C2_CycleAlwaysRaises ==
    \A t \in ThreadIds :
        (~Running(t) /\ "depth_cap" \in events[t]) =>
            /\ ret[t].out.kind = "exc"
            /\ ret[t].out.type = "parse_exception"
            /\ Cardinality({i \in 1..Len(ret[t].out.message) :
                               ret[t].out.message[i] = "\t"}) = MAX_INCLUDE_DEPTH

-----------------------------------------------------------------------------
(* C3 *)

\* C3: a parse(options) call that pushed its source removes exactly that entry
\* when it ends, by return or by exception, and leaves the stack as deep (and
\* the slot as established) as it found it; nothing below the top entry ever
\* changes; a thread with no parse in progress has released its slot, so its
\* next outermost parse starts at depth 0.
C3_StackRestoredOnExit ==
    /\ [](\A t \in ThreadIds : ~Running(t) => Get(thread_specific_ptr_data, t) = NullPtr)
    /\ [][\A t \in ThreadIds :
            /\ \/ StackOf(t)' = StackOf(t)
               \/ StackOf(t) # << >> /\ StackOf(t)' = ButLast(StackOf(t))
               \/ StackOf(t)' # << >> /\ ButLast(StackOf(t)') = StackOf(t)
            /\ ExitsPushed(t) =>
                 /\ Last(StackOf(t)) = Top(t).p
                 /\ StackOf(t)' = ButLast(StackOf(t))
                 /\ Len(StackOf(t)') = Top(t).before.depth
                 /\ Get(thread_specific_ptr_data, t)'.held = Top(t).before.held
            /\ (~Running(t) /\ Running(t)' /\ Last(frames'[t]).entry = "parse_options")
                 => StackOf(t)' = <<Last(frames'[t]).p>>
       ]_vars

\* an outermost parse(options) ended with the io error of a required include
\* that was missing
C3_Witness ==
    \E t \in ThreadIds :
        /\ ~Running(t)
        /\ ret[t] # NoRet
        /\ ret[t].pushed
        /\ ret[t].call.entry = "parse_options"
        /\ ret[t].out.kind = "exc"
        /\ "required_missing" \in events[t]
        /\ Get(thread_specific_ptr_data, t) = NullPtr

-----------------------------------------------------------------------------
(* C4 *)

\* C4: a step of one thread never changes the stack slot of another thread;
\* the stack of a thread holds exactly the sources of its own parse(options)
\* calls in progress, so a depth check fails only when that thread itself is
\* nested 50 deep.
C4_StackPerThread ==
    /\ [](\A t \in ThreadIds :
            /\ StackOf(t) = SourcesOf(frames[t], {"parse_options"})
            /\ (ret[t] # NoRet /\ ~ret[t].pushed) => Len(frames[t]) = MAX_INCLUDE_DEPTH)
    /\ [][\A t \in ThreadIds :
            ~Acted(t) => thread_specific_ptr_data'[t] = thread_specific_ptr_data[t]]_vars

\* two threads are nested 50 deep at the same time
C4_Witness ==
    \A t \in ThreadIds :
        /\ Len(StackOf(t)) = MAX_INCLUDE_DEPTH
        /\ Len(frames[t]) = MAX_INCLUDE_DEPTH

-----------------------------------------------------------------------------
(* C5 *)

\* C5: while a thread is inside parse calls, its stack is exactly the sequence
\* of the sources being parsed on it, outermost first, whichever entry point
\* (parse() or parse(options)) the outermost call used.
C5_StackIsSourcesInProgress ==
    \A t \in ThreadIds :
        Running(t) => StackOf(t) = SourcesOf(frames[t], {"parse", "parse_options"})

-----------------------------------------------------------------------------
(* C6 *)

CannotOpen(p) ==
    \/ p.kind = "not_found"
    \/ p.kind = "file" /\ p.input \notin DOMAIN FileSystem

OpenError(p) == IF p.kind = "file" THEN <<"not found">> ELSE p.message

\* C6: a parse of a source that cannot be opened (a file that does not open, a
\* not-found placeholder) ends in one of two ways: with allow_missing, the empty
\* object whose origin is the origin of the source followed by " (not found)";
\* without, an io error carrying that origin and the message of the open error.
\* The origin is the initial origin of the source unless the options of the
\* call carry an origin description.
C6_MissingSourcePolicy ==
    \A t \in ThreadIds :
        (ret[t] # NoRet /\ ret[t].pushed /\ CannotOpen(ret[t].call.p)) =>
            LET call == ret[t].call
                out == ret[t].out
            IN  /\ ~call.options.origin_description.has
                      => call.origin = call.p.initial_origin
                /\ IF call.options.allow_missing
                   THEN /\ out.kind = "value"
                        /\ out.vtype = "OBJECT"
                        /\ out.keys = {}
                        /\ out.origin = call.origin \o <<" (not found)">>
                   ELSE /\ out.kind = "exc"
                        /\ out.type = "io_exception"
                        /\ out.origin = Description(call.origin)
                        /\ out.message = OpenError(call.p)

\* a file that does not exist was parsed with allow_missing and became an
\* empty "(not found)" object
C6_Witness ==
    \E t \in ThreadIds :
        /\ ret[t] # NoRet
        /\ ret[t].pushed
        /\ ret[t].call.p.kind = "file"
        /\ CannotOpen(ret[t].call.p)
        /\ ret[t].call.options.allow_missing
        /\ ret[t].out.kind = "value"

-----------------------------------------------------------------------------
(* C7 *)

\* C7: a parse error for malformed input of a source that opened is reported
\* to the caller as an error whatever allow_missing says; it is never replaced
\* by an object.
C7_MalformedAlwaysReported ==
    \A t \in ThreadIds :
        ( /\ ret[t] # NoRet
          /\ ret[t].pushed
          /\ ret[t].raw.kind = "exc"
          /\ ret[t].raw.type = "parse_exception"
          /\ ret[t].raw.message = <<"malformed input">> ) =>
            ret[t].out.kind = "exc"

-----------------------------------------------------------------------------
(* C8 *)

\* C8: when a required include (a nested parse with allow_missing off) found
\* its target missing, the outermost parse ends with an io error, whatever the
\* allow_missing settings of the enclosing sources.
C8_RequiredIncludeAlwaysFails ==
    \A t \in ThreadIds :
        (~Running(t) /\ "required_missing" \in events[t]) =>
            /\ ret[t].out.kind = "exc"
            /\ ret[t].out.type = "io_exception"

-----------------------------------------------------------------------------
(* C9 *)

\* the syntax the source was asked to use when it was built
RequestedSyntax == IF made.op = "relative_to" THEN "UNSPECIFIED" ELSE made.options.syntax

ExpectedSyntax(requested, p) ==
    IF requested # "UNSPECIFIED" THEN requested
    ELSE IF p.kind = "file" /\ HasSuffix(p.input, DotJson) THEN "JSON"
    ELSE "CONF"

\* C9: the syntax of a source is never unspecified: fixup_options keeps a
\* requested JSON or CONF; with none requested, a file whose path ends in .json
\* gets JSON and every other source (.conf files, other files, strings,
\* resources, not-found placeholders) gets CONF.  The same holds for the
\* options a later parse call hands in.
C9_SyntaxNeverUnspecified ==
    obj # NoObject =>
        /\ obj.initial_options.syntax \in {"JSON", "CONF"}
        /\ obj.initial_options.syntax = ExpectedSyntax(RequestedSyntax, obj)
        /\ \A o \in OptionInputs :
              final_options(obj, o).syntax = ExpectedSyntax(o.syntax, obj)

\* a file named *.json was built without a requested syntax and got JSON
C9_Witness ==
    /\ obj # NoObject
    /\ obj.kind = "file"
    /\ RequestedSyntax = "UNSPECIFIED"
    /\ HasSuffix(obj.input, DotJson)
    /\ obj.initial_options.syntax = "JSON"

-----------------------------------------------------------------------------
(* C10 *)

\* d is the directory part of path: path up to and including its last '/',
\* empty when the path has none
IsDirOf(d, path) ==
    \E k \in 0..Len(path) :
        /\ d = SubSeq(path, 1, k)
        /\ ~HasSlash(SubSeq(path, k + 1, Len(path)))
        /\ (k = 0 \/ path[k] = Slash)

\* C10: relative_to(name) on a file source with path P yields the file source
\* with path name when name starts with '/', and dir(P) followed by name
\* otherwise; separate_filepath splits a path into a directory and a file name
\* whose concatenation is the path, the file name holding no '/'.
C10_RelativeResolution ==
    /\ (obj # NoObject /\ obj.kind = "file") =>
          LET split == separate_filepath(obj.input)
          IN  /\ split.file_dir \o split.file_name = obj.input
              /\ ~HasSlash(split.file_name)
              /\ IsDirOf(split.file_dir, obj.input)
              /\ obj.cur_dir = split.file_dir
    /\ (made.op = "relative_to" /\ made.from.kind = "file") =>
          /\ obj.kind = "file"
          /\ IF made.input # << >> /\ made.input[1] = Slash
             THEN obj.input = made.input
             ELSE \E d \in {SubSeq(made.from.input, 1, k) : k \in 0..Len(made.from.input)} :
                     /\ IsDirOf(d, made.from.input)
                     /\ obj.input = d \o made.input

\* a relative name was resolved against a file inside a directory
C10_Witness ==
    /\ made.op = "relative_to"
    /\ made.from.kind = "file"
    /\ HasSlash(made.from.input)
    /\ Len(made.from.input) > 1
    /\ made.input # << >>
    /\ made.input[1] # Slash
    /\ obj.input # made.input

-----------------------------------------------------------------------------
(* C11 *)

\* C11: parse() and parse(options) return only objects: a call whose source
\* parsed to a value that is not an object (the root is an array) ends by
\* throwing the wrong_type error "object at file root" at the origin of that
\* value, with allow_missing on as with it off; it returns neither that value
\* nor an empty object, and the error is not an io error.
C11_ParseReturnsOnlyObjects ==
    \A t \in ThreadIds :
        (ret[t] # NoRet /\ ret[t].pushed) =>
            /\ ret[t].out.kind = "value" => ret[t].out.vtype = "OBJECT"
            /\ (ret[t].raw.kind = "value" /\ ret[t].raw.vtype # "OBJECT") =>
                  /\ ret[t].out.kind = "exc"
                  /\ ret[t].out.type = "wrong_type_exception"
                  /\ ret[t].out.message = <<"object at file root">>
                  /\ ret[t].out.origin = Description(ret[t].raw.origin)

\* a parse(options) call with allow_missing on, of a file whose root is an
\* array, threw the wrong_type error
C11_Witness ==
    \E t \in ThreadIds :
        /\ ret[t] # NoRet
        /\ ret[t].pushed
        /\ ret[t].call.entry = "parse_options"
        /\ ret[t].call.options.allow_missing
        /\ ret[t].call.p.kind = "file"
        /\ ret[t].raw.kind = "value"
        /\ ret[t].raw.vtype = "LIST"
        /\ ret[t].out.kind = "exc"
        /\ ret[t].out.type = "wrong_type_exception"

=============================================================================
